---- MODULE Spec2Model ----
(***************************************************************************)
(* Model of the global rules server (GlobalRulesServer): the configuration *)
(* loader loadConfig, the directory synchronizer copyGlobalRulesFiles and  *)
(* the two tool handlers handleLoadGlobalRules / handleSaveGlobalRules,    *)
(* run against a small filesystem and a configuration store (config.json). *)
(*                                                                         *)
(* The filesystem is a map from paths (sequences of path components) to    *)
(* nodes.  The fs/promises calls the code makes (access, mkdir recursive,  *)
(* readdir, stat, copyFile) are operators over that map, with the          *)
(* semantics Node.js gives them for an unprivileged process on a POSIX     *)
(* filesystem.                                                             *)
(***************************************************************************)
EXTENDS Integers, Sequences, FiniteSets, TLC

VARIABLES
    store,      \* config.json, the external configuration store
    fs,         \* the filesystem: path -> node
    config,     \* the field this.config of the server object
    request,    \* <<>> or <<r>>: the last tool call, r = [name, path]
    response,   \* <<>> or <<r>>: the result serialized by the last tool call
    log,        \* the fs calls copyGlobalRulesFiles made in the last tool call
    configEdit, \* "edited": config.json was rewritten since the last tool
                \* call; "used": the last tool call was the first after such
                \* a rewrite; "none" otherwise
    calls,      \* the two overlapping tool calls: name -> where the handler
                \* stands between two awaits, and what it holds there
    start,      \* <<>> or <<f>>: the filesystem as the overlapping calls
                \* found it
    trip        \* the round trip under way: phase "loaded" after a successful
                \* loadGlobalRules, "saved" after a successful saveGlobalRules
                \* that followed it directly, "none" otherwise; before holds
                \* the entries the global directory had before that load

vars ==
    <<store, fs, config, request, response, log, configEdit, calls, start, trip>>

(***************************************************************************)
(* Bounds                                                                  *)
(***************************************************************************)
\* file contents are 1..NumContents
NumContents == 2
\* the two directories of the initial filesystem hold at most this many
\* entries together
MaxEntries == 3

Contents == 1..NumContents

(***************************************************************************)
(* Error kinds                                                             *)
(***************************************************************************)
CONFIG_PARSING_ERROR == "CONFIG_PARSING_ERROR"
OPERATION_ERROR == "OPERATION_ERROR"
ErrorType == {CONFIG_PARSING_ERROR, OPERATION_ERROR}

(***************************************************************************)
(* Names and paths                                                         *)
(***************************************************************************)
\* the directory entry names of the model, each with its characters
Names == {"g-a.mdc", "g-b.mdc", "ag-.mdc"}

Chars(name) ==
    CASE name = "g-a.mdc" -> <<"g", "-", "a", ".", "m", "d", "c">>
      [] name = "g-b.mdc" -> <<"g", "-", "b", ".", "m", "d", "c">>
      [] name = "ag-.mdc" -> <<"a", "g", "-", ".", "m", "d", "c">>
      [] OTHER -> <<>>

\* String.prototype.startsWith
startsWith(chars, prefix) ==
    /\ Len(chars) >= Len(prefix)
    /\ SubSeq(chars, 1, Len(prefix)) = prefix

\* file.startsWith('g-')
IsGlobalFile(name) == startsWith(Chars(name), <<"g", "-">>)

\* path.join(base, ...parts)
join(base, parts) == base \o parts

\* the directory a well-formed config.json usually names, and the one project
GlobalDir == <<"global">>
ProjectPath == <<"project">>
RulesDir == join(ProjectPath, <<".cursor", "rules">>)

DirPaths == {GlobalDir, ProjectPath, join(ProjectPath, <<".cursor">>), RulesDir}
EntryPaths == {join(d, <<n>>) : d \in {GlobalDir, RulesDir}, n \in Names}
Paths == DirPaths \cup EntryPaths

(***************************************************************************)
(* Filesystem nodes                                                        *)
(***************************************************************************)
Absent == [kind |-> "absent", content |-> 0, mode |-> "-"]
Directory == [kind |-> "dir", content |-> 0, mode |-> "-"]
\* a symbolic link whose target does not exist
Dangling == [kind |-> "dangling", content |-> 0, mode |-> "-"]
\* a regular file; mode "rw": readable and writable, "r": read-only
File(c, m) == [kind |-> "file", content |-> c, mode |-> m]

Modes == {"rw", "r"}
Nodes == {Absent, Directory, Dangling} \cup {File(c, m) : c \in Contents, m \in Modes}

NodeAt(f, p) == IF p \in DOMAIN f THEN f[p] ELSE Absent

Parent(p) == SubSeq(p, 1, Len(p) - 1)

\* every non-root entry lives in a directory
WellFormedFS(f) ==
    \A p \in DOMAIN f :
        (f[p] # Absent /\ Len(p) > 1) => NodeAt(f, Parent(p)).kind = "dir"

(***************************************************************************)
(* The fs/promises calls                                                   *)
(***************************************************************************)
\* fs.access(path): resolves when the path names an existing entry
access(f, p) == NodeAt(f, p).kind \in {"dir", "file"}

Put(f, p, node) ==
    [q \in DOMAIN f \cup {p} |-> IF q = p THEN node ELSE f[q]]

\* fs.mkdir(path, { recursive: true }) from its i-th component on
RECURSIVE mkdirFrom(_, _, _)
mkdirFrom(f, p, i) ==
    IF i > Len(p)
    THEN [ok |-> TRUE, fs |-> f, code |-> "-"]
    ELSE LET q == SubSeq(p, 1, i)
             kind == NodeAt(f, q).kind
         IN  CASE kind = "dir" -> mkdirFrom(f, p, i + 1)
               [] kind = "absent" -> mkdirFrom(Put(f, q, Directory), p, i + 1)
               [] OTHER ->
                    [ok |-> FALSE, fs |-> f,
                     code |-> IF i = Len(p) THEN "EEXIST" ELSE "ENOTDIR"]

\* fs.mkdir(path) without { recursive: true }: the parent has to exist and
\* the path must not
mkdir_NotRecursive(f, p) ==
    IF Len(p) > 1 /\ NodeAt(f, Parent(p)).kind # "dir"
    THEN [ok |-> FALSE, fs |-> f, code |-> "ENOENT"]
    ELSE IF NodeAt(f, p).kind # "absent"
    THEN [ok |-> FALSE, fs |-> f, code |-> "EEXIST"]
    ELSE [ok |-> TRUE, fs |-> Put(f, p, Directory), code |-> "-"]

mkdir(f, p) == mkdirFrom(f, p, 1)

\* fs.readdir with its failure caught and turned into an empty listing
readdir_SwallowsError(f, dir, listing) ==
    LET present(n) == NodeAt(f, join(dir, <<n>>)) # Absent
    IN  [ok |-> TRUE,
         files |-> IF NodeAt(f, dir).kind # "dir" THEN <<>>
                   ELSE SelectSeq(listing, present),
         code |-> "-"]

\* fs.readdir(path): the names of the entries, in the order the listing
\* yields them (listing names a total order of Names)
readdir(f, dir, listing) ==
    IF NodeAt(f, dir).kind # "dir"
    THEN [ok |-> FALSE, files |-> <<>>, code |-> "ENOTDIR"]
    ELSE LET present(n) == NodeAt(f, join(dir, <<n>>)) # Absent
         IN  [ok |-> TRUE, files |-> SelectSeq(listing, present), code |-> "-"]

\* fs.stat(path): follows symbolic links
stat(f, p) ==
    LET kind == NodeAt(f, p).kind
    IN  IF kind \in {"absent", "dangling"}
        THEN [ok |-> FALSE, isFile |-> FALSE, code |-> "ENOENT"]
        ELSE [ok |-> TRUE, isFile |-> kind = "file", code |-> "-"]

\* fs.rename(src, dest) in the place of fs.copyFile: the source entry goes
copyFile_Move(f, src, dest) ==
    LET s == NodeAt(f, src)
        d == NodeAt(f, dest)
    IN  IF s.kind # "file" \/ d.kind = "dir" \/ NodeAt(f, Parent(dest)).kind # "dir"
        THEN [ok |-> FALSE, fs |-> f, code |-> "ENOENT"]
        ELSE IF src = dest THEN [ok |-> TRUE, fs |-> f, code |-> "-"]
        ELSE [ok |-> TRUE, fs |-> Put(Put(f, dest, s), src, Absent), code |-> "-"]

\* fs.copyFile that leaves a destination that exists as it is
copyFile_KeepsExisting(f, src, dest) ==
    LET s == NodeAt(f, src)
        d == NodeAt(f, dest)
        fail(code) == [ok |-> FALSE, fs |-> f, code |-> code]
    IN  IF s.kind \in {"absent", "dangling"} THEN fail("ENOENT")
        ELSE IF s.kind = "dir" THEN fail("EISDIR")
        ELSE IF d.kind = "dir" THEN fail("EISDIR")
        ELSE IF NodeAt(f, Parent(dest)).kind # "dir" THEN fail("ENOENT")
        ELSE IF d.kind = "file" THEN [ok |-> TRUE, fs |-> f, code |-> "-"]
        ELSE [ok |-> TRUE, fs |-> Put(f, dest, File(s.content, s.mode)),
              code |-> "-"]

\* fs.copyFile(src, dest): opens src for reading, opens dest for writing
\* (creating it with the mode of src), returns at once when both are the same
\* file, else truncates dest, copies the bytes and gives dest the mode of src
copyFile(f, src, dest) ==
    LET s == NodeAt(f, src)
        d == NodeAt(f, dest)
        fail(code) == [ok |-> FALSE, fs |-> f, code |-> code]
    IN  IF s.kind \in {"absent", "dangling"} THEN fail("ENOENT")
        ELSE IF s.kind = "dir" THEN fail("EISDIR")
        ELSE IF d.kind = "dir" THEN fail("EISDIR")
        ELSE IF d.kind = "file" /\ d.mode # "rw" THEN fail("EACCES")
        ELSE IF NodeAt(f, Parent(dest)).kind # "dir" THEN fail("ENOENT")
        ELSE IF src = dest THEN [ok |-> TRUE, fs |-> f, code |-> "-"]
        \* dest absent, an overwritable file, or a dangling link whose
        \* target the open creates: dest now reads as a copy of src
        ELSE [ok |-> TRUE, fs |-> Put(f, dest, File(s.content, s.mode)),
              code |-> "-"]

(***************************************************************************)
(* The configuration store                                                 *)
(***************************************************************************)
\* A string is a sequence of tokens: " " is white space, any other token is
\* a path component.  String.prototype.trim:
RECURSIVE trimStart(_)
trimStart(s) == IF s # <<>> /\ Head(s) = " " THEN trimStart(Tail(s)) ELSE s

RECURSIVE trimEnd(_)
trimEnd(s) ==
    IF s # <<>> /\ s[Len(s)] = " " THEN trimEnd(SubSeq(s, 1, Len(s) - 1)) ELSE s

trim(s) == trimEnd(trimStart(s))

\* the values globalRulesSourceDir takes in the model
ConfigStrings == {<<>>, <<" ">>, GlobalDir, RulesDir}

\* config.json: absent, not JSON, or a JSON object with or without the field
StoreAbsent == [kind |-> "absent", hasDir |-> FALSE, dir |-> <<>>]
StoreMalformed == [kind |-> "malformed", hasDir |-> FALSE, dir |-> <<>>]
StoreNoField == [kind |-> "json", hasDir |-> FALSE, dir |-> <<>>]
StoreDir(s) == [kind |-> "json", hasDir |-> TRUE, dir |-> s]

Stores ==
    {StoreAbsent, StoreMalformed, StoreNoField} \cup {StoreDir(s) : s \in ConfigStrings}

ConfigError(message) ==
    [success |-> FALSE, error |-> [type |-> CONFIG_PARSING_ERROR, message |-> message]]

\* loadConfig without the check that the directory exists
loadConfig_NoDirCheck(st, f) ==
    IF st.kind = "absent"
    THEN ConfigError(<<"Configuration file not found">>)
    ELSE IF st.kind = "malformed"
    THEN ConfigError(<<"Failed to parse config.json">>)
    ELSE IF ~st.hasDir \/ st.dir = <<>> \/ trim(st.dir) = <<>>
    THEN ConfigError(<<"globalRulesSourceDir is not set or empty in config.json">>)
    ELSE [success |-> TRUE, config |-> [globalRulesSourceDir |-> st.dir]]

\* GlobalRulesServer.loadConfig
loadConfig(st, f) ==
    IF st.kind = "absent"
    THEN ConfigError(<<"Configuration file not found">>)
    ELSE IF st.kind = "malformed"
    THEN ConfigError(<<"Failed to parse config.json">>)
    ELSE IF ~st.hasDir \/ st.dir = <<>> \/ trim(st.dir) = <<>>
    THEN ConfigError(<<"globalRulesSourceDir is not set or empty in config.json">>)
    ELSE IF ~access(f, st.dir)
    THEN ConfigError(<<"Global rules directory does not exist">> \o st.dir)
    ELSE [success |-> TRUE, config |-> [globalRulesSourceDir |-> st.dir]]

(***************************************************************************)
(* The directory synchronizer                                              *)
(***************************************************************************)
\* an entry of the call log: the fs call, its path, and how it ended
Call(name, p, outcome) == [call |-> name, path |-> p, outcome |-> outcome]

OperationError(message) == [type |-> OPERATION_ERROR, message |-> message]

Success == [success |-> TRUE]
Failed(errors) == [success |-> FALSE, errors |-> errors]

\* one iteration of the loop over globalFiles: stat the source entry, copy it
\* when it is a regular file, push an error when stat or copyFile throws
copyOne(acc, sourceDir, targetDir, file) ==
    LET sourcePath == join(sourceDir, <<file>>)
        targetPath == join(targetDir, <<file>>)
        st == stat(acc.fs, sourcePath)
        cp == copyFile(acc.fs, sourcePath, targetPath)
        failedToCopy(code) ==
            OperationError(<<"Failed to copy", file, code>>)
    IN  IF ~st.ok
        THEN [fs |-> acc.fs,
              errors |-> Append(acc.errors, failedToCopy(st.code)),
              log |-> Append(acc.log, Call("stat", sourcePath, "threw"))]
        ELSE IF ~st.isFile
        THEN [fs |-> acc.fs,
              errors |-> acc.errors,
              log |-> Append(acc.log, Call("stat", sourcePath, "notFile"))]
        ELSE [fs |-> cp.fs,
              errors |-> IF cp.ok THEN acc.errors
                         ELSE Append(acc.errors, failedToCopy(cp.code)),
              log |-> acc.log \o
                      <<Call("stat", sourcePath, "isFile"),
                        Call("copyFile", sourcePath,
                             IF cp.ok THEN "ok" ELSE "threw")>>]

\* the loop leaving at the first file whose stat or copy threw
RECURSIVE copyEach_StopAtError(_, _, _, _)
copyEach_StopAtError(acc, sourceDir, targetDir, files) ==
    IF files = <<>> \/ acc.errors # <<>>
    THEN acc
    ELSE copyEach_StopAtError(copyOne(acc, sourceDir, targetDir, Head(files)),
                              sourceDir, targetDir, Tail(files))

\* for (const file of globalFiles) { ... }
RECURSIVE copyEach(_, _, _, _)
copyEach(acc, sourceDir, targetDir, files) ==
    IF files = <<>>
    THEN acc
    ELSE copyEach(copyOne(acc, sourceDir, targetDir, Head(files)),
                  sourceDir, targetDir, Tail(files))

\* the listing used without the filter on the prefix
globalFilesOf_Unfiltered(files) == files

\* files.filter(file => file.startsWith('g-'))
globalFilesOf(files) == SelectSeq(files, IsGlobalFile)

\* the batch reporting a failure whether or not an error was pushed
batchResult_AlwaysFailed(errors) ==
    IF Len(errors) >= 0 THEN Failed(errors) ELSE Success

\* if (errors.length > 0) return { success: false, errors }
\* return { success: true }
batchResult(errors) ==
    IF Len(errors) > 0 THEN Failed(errors) ELSE Success

\* copyGlobalRulesFiles without the check that the source directory exists
copyGlobalRulesFiles_NoSourceCheck(f, sourceDir, targetDir, listing) ==
    LET made == mkdir(f, targetDir)
        list == readdir(made.fs, sourceDir, listing)
        globalFiles == globalFilesOf(list.files)
        created == <<Call("mkdir", targetDir,
                          IF ~made.ok THEN "threw"
                          ELSE IF made.fs # f THEN "created" ELSE "ok")>>
        listed == Append(created,
                         Call("readdir", sourceDir,
                              IF list.ok THEN "ok" ELSE "threw"))
        done == copyEach([fs |-> made.fs, errors |-> <<>>, log |-> listed],
                         sourceDir, targetDir, globalFiles)
    IN  IF ~made.ok
        THEN [result |-> Failed(<<OperationError(<<made.code>>)>>),
              fs |-> made.fs,
              log |-> created]
        ELSE IF ~list.ok
        THEN [result |-> Failed(<<OperationError(<<list.code>>)>>),
              fs |-> made.fs,
              log |-> listed]
        ELSE IF Len(globalFiles) = 0
        THEN [result |-> Success, fs |-> made.fs, log |-> listed]
        ELSE [result |-> batchResult(done.errors),
              fs |-> done.fs,
              log |-> done.log]

\* GlobalRulesServer.copyGlobalRulesFiles; listing is the order in which
\* readdir yields the names
copyGlobalRulesFiles(f, sourceDir, targetDir, listing) ==
    IF ~access(f, sourceDir)
    THEN [result |-> Failed(<<OperationError(
                        <<"Source directory does not exist">> \o sourceDir)>>),
          fs |-> f,
          log |-> <<Call("access", sourceDir, "threw")>>]
    ELSE
    LET made == mkdir(f, targetDir)
        list == readdir(made.fs, sourceDir, listing)
        globalFiles == globalFilesOf(list.files)
        checked == <<Call("access", sourceDir, "ok")>>
        created == Append(checked,
                          Call("mkdir", targetDir,
                               IF ~made.ok THEN "threw"
                               ELSE IF made.fs # f THEN "created" ELSE "ok"))
        listed == Append(created,
                         Call("readdir", sourceDir,
                              IF list.ok THEN "ok" ELSE "threw"))
        done == copyEach([fs |-> made.fs, errors |-> <<>>, log |-> listed],
                         sourceDir, targetDir, globalFiles)
    IN  IF ~made.ok
        THEN [result |-> Failed(<<OperationError(<<made.code>>)>>),
              fs |-> made.fs,
              log |-> created]
        ELSE IF ~list.ok
        THEN [result |-> Failed(<<OperationError(<<list.code>>)>>),
              fs |-> made.fs,
              log |-> listed]
        ELSE IF Len(globalFiles) = 0
        THEN [result |-> Success, fs |-> made.fs, log |-> listed]
        ELSE [result |-> batchResult(done.errors),
              fs |-> done.fs,
              log |-> done.log]

(***************************************************************************)
(* Initial states                                                          *)
(***************************************************************************)
RegularEntries == {Absent} \cup {File(c, "rw") : c \in Contents}
SpecialEntries == {File(1, "r"), Directory, Dangling}

\* the entries of one directory: a global file is anything, the other name
\* is absent or a plain file, and at most one entry is special
Listings ==
    {e \in [Names -> RegularEntries \cup SpecialEntries] :
        /\ \A n \in Names : ~IsGlobalFile(n) => e[n] \in {Absent, File(1, "rw")}
        /\ \A n, m \in Names :
                (e[n] \in SpecialEntries /\ e[m] \in SpecialEntries) => n = m}

NoEntries == [n \in Names |-> Absent]

NumEntries(e) == Cardinality({n \in Names : e[n] # Absent})

\* what the path of the global directory names
GlobalShapes == {"absent", "file", "dir"}
\* how much of project/.cursor/rules exists: no project, a project without
\* .cursor, .cursor a regular file, rules a regular file, rules a directory
ProjectShapes == {"noproject", "nocursor", "cursorfile", "rulesfile", "dir"}

MkFS(gshape, gentries, pshape, rentries) ==
    [p \in Paths |->
        IF p = GlobalDir THEN
            (IF gshape = "dir" THEN Directory
             ELSE IF gshape = "file" THEN File(1, "rw") ELSE Absent)
        ELSE IF p = ProjectPath THEN
            (IF pshape = "noproject" THEN Absent ELSE Directory)
        ELSE IF p = join(ProjectPath, <<".cursor">>) THEN
            (IF pshape \in {"noproject", "nocursor"} THEN Absent
             ELSE IF pshape = "cursorfile" THEN File(1, "rw") ELSE Directory)
        ELSE IF p = RulesDir THEN
            (IF pshape = "dir" THEN Directory
             ELSE IF pshape = "rulesfile" THEN File(1, "rw") ELSE Absent)
        ELSE IF Parent(p) = GlobalDir THEN gentries[p[Len(p)]]
        ELSE rentries[p[Len(p)]]]

InitFS ==
    {MkFS(t[1], t[2], t[3], t[4]) :
        t \in {u \in GlobalShapes \X Listings \X ProjectShapes \X Listings :
                /\ u[1] # "dir" => u[2] = NoEntries
                /\ u[3] # "dir" => u[4] = NoEntries
                /\ NumEntries(u[2]) + NumEntries(u[4]) <= MaxEntries}}

\* Config = {}: the field is declared and never assigned
EmptyConfig == <<>>

\* no round trip is under way
NoTrip == [phase |-> "none", before |-> NoEntries]

\* the entries of a directory, by name
EntriesOf(f, dir) == [n \in Names |-> NodeAt(f, join(dir, <<n>>))]

\* the handlers of the two tools
CallNames == {"loadGlobalRules", "saveGlobalRules"}

\* a handler between two awaits: pc names the fs call it makes next
\* ("idle": not invoked; "done": returned), files is what is left of
\* globalFiles, errors the array of the batch, result <<>> or <<r>>
Invocation(pc, sourceDir, targetDir, files, errors, result) ==
    [pc |-> pc, sourceDir |-> sourceDir, targetDir |-> targetDir,
     files |-> files, errors |-> errors, result |-> result]

Idle == Invocation("idle", <<>>, <<>>, <<>>, <<>>, <<>>)
Invoked == Invocation("config", <<>>, <<>>, <<>>, <<>>, <<>>)
Returned(result) == Invocation("done", <<>>, <<>>, <<>>, <<>>, <<result>>)

NoCalls == [c \in CallNames |-> Idle]

Init ==
    /\ store \in Stores
    /\ fs \in InitFS
    /\ config = EmptyConfig
    /\ request = <<>>
    /\ response = <<>>
    /\ log = <<>>
    /\ configEdit = "none"
    /\ trip = NoTrip
    /\ calls = NoCalls
    /\ start = <<>>

(***************************************************************************)
(* The tool handlers                                                       *)
(***************************************************************************)
\* the orders in which readdir may yield the names: no order is promised,
\* the model takes one order and its reverse
ReaddirOrders ==
    {<<"ag-.mdc", "g-a.mdc", "g-b.mdc">>, <<"g-b.mdc", "g-a.mdc", "ag-.mdc">>}

\* the project paths a tool call names
RequestPaths == {ProjectPath}

Request(name, path) == [name |-> name, path |-> path]

\* the round trip after a tool call: a successful load opens one and notes
\* the global directory as the call found it, a successful save that follows
\* the load directly closes it, every other call leaves none under way
NextTrip(name, out) ==
    IF ~out.result.success THEN NoTrip
    ELSE IF name = "loadGlobalRules"
    THEN [phase |-> "loaded", before |-> EntriesOf(fs, store.dir)]
    ELSE IF trip.phase = "loaded"
    THEN [phase |-> "saved", before |-> trip.before]
    ELSE NoTrip

\* the handler returns the serialized result; out is what the synchronizer
\* (or the failed configuration loader) left behind
Return(name, path, out) ==
    /\ request' = <<Request(name, path)>>
    /\ response' = <<out.result>>
    /\ fs' = out.fs
    /\ log' = out.log
    /\ configEdit' = IF configEdit = "edited" THEN "used" ELSE "none"
    /\ trip' = NextTrip(name, out)
    /\ UNCHANGED <<store, config, calls, start>>

ConfigFailure(f, configResult) ==
    [result |-> Failed(<<configResult.error>>), fs |-> f, log |-> <<>>]

\* handleLoadGlobalRules keeping the configuration it loaded in this.config
\* and using it in the later calls
handleLoadGlobalRules_Cached ==
    \E path \in RequestPaths, listing \in ReaddirOrders :
        LET configResult ==
                IF config # EmptyConfig
                THEN [success |-> TRUE, config |-> config[1]]
                ELSE loadConfig(store, fs)
            sourceRulesDir == configResult.config.globalRulesSourceDir
            targetRulesDir == join(path, <<".cursor", "rules">>)
            out == IF ~configResult.success
                   THEN ConfigFailure(fs, configResult)
                   ELSE copyGlobalRulesFiles(fs, sourceRulesDir, targetRulesDir,
                                             listing)
        IN  /\ request' = <<Request("loadGlobalRules", path)>>
            /\ response' = <<out.result>>
            /\ fs' = out.fs
            /\ log' = out.log
            /\ configEdit' = IF configEdit = "edited" THEN "used" ELSE "none"
            /\ config' = IF configResult.success THEN <<configResult.config>>
                         ELSE config
            /\ trip' = NextTrip("loadGlobalRules", out)
            /\ UNCHANGED <<store, calls, start>>

\* handleLoadGlobalRules creating the rules directory of the project before
\* it loads the configuration
handleLoadGlobalRules_MkdirFirst ==
    \E path \in RequestPaths, listing \in ReaddirOrders :
        LET targetRulesDir == join(path, <<".cursor", "rules">>)
            made == mkdir(fs, targetRulesDir)
            configResult == loadConfig(store, made.fs)
            sourceRulesDir == configResult.config.globalRulesSourceDir
        IN  Return("loadGlobalRules", path,
                   IF ~configResult.success
                   THEN ConfigFailure(made.fs, configResult)
                   ELSE copyGlobalRulesFiles(made.fs, sourceRulesDir,
                                             targetRulesDir, listing))

\* GlobalRulesServer.handleLoadGlobalRules
handleLoadGlobalRules ==
    \E path \in RequestPaths, listing \in ReaddirOrders :
        LET configResult == loadConfig(store, fs)
            sourceRulesDir == configResult.config.globalRulesSourceDir
            targetRulesDir == join(path, <<".cursor", "rules">>)
        IN  Return("loadGlobalRules", path,
                   IF ~configResult.success
                   THEN ConfigFailure(fs, configResult)
                   ELSE copyGlobalRulesFiles(fs, sourceRulesDir, targetRulesDir,
                                             listing))

\* GlobalRulesServer.handleSaveGlobalRules
handleSaveGlobalRules ==
    \E path \in RequestPaths, listing \in ReaddirOrders :
        LET configResult == loadConfig(store, fs)
            sourceRulesDir == join(path, <<".cursor", "rules">>)
            targetRulesDir == configResult.config.globalRulesSourceDir
        IN  Return("saveGlobalRules", path,
                   IF ~configResult.success
                   THEN ConfigFailure(fs, configResult)
                   ELSE copyGlobalRulesFiles(fs, sourceRulesDir, targetRulesDir,
                                             listing))

\* the operator of the server rewrites config.json between tool calls
EditConfig ==
    /\ \E s \in Stores \ {store} : store' = s
    /\ configEdit' = IF request # <<>> THEN "edited" ELSE "none"
    /\ trip' = NoTrip
    /\ UNCHANGED <<fs, config, request, response, log, calls, start>>

Next ==
    \/ handleLoadGlobalRules
    \/ handleSaveGlobalRules
    \/ EditConfig

Spec == Init /\ [][Next]_vars

TypeOK ==
    /\ store \in Stores
    /\ WellFormedFS(fs)
    /\ \A p \in DOMAIN fs : fs[p] \in Nodes
    /\ config = EmptyConfig
    /\ Len(request) <= 1 /\ Len(response) = Len(request)
    /\ trip.phase \in {"none", "loaded", "saved"}
    /\ \A n \in Names : trip.before[n] \in Nodes

(***************************************************************************)
(* Overlapping tool calls: the server answers a request in an async        *)
(* handler, so a second request is taken up while the first one waits at   *)
(* an await. One loadGlobalRules and one saveGlobalRules of the same path  *)
(* run here, each fs call being one step: what lies between two awaits is  *)
(* synchronous and belongs to the step of the call that resumes it.        *)
(***************************************************************************)
InitConc ==
    /\ store \in Stores
    /\ fs \in InitFS
    /\ config = EmptyConfig
    /\ request = <<>>
    /\ response = <<>>
    /\ log = <<>>
    /\ configEdit = "none"
    /\ trip = NoTrip
    /\ calls = [c \in CallNames |-> Invoked]
    /\ start = <<fs>>

\* the call c goes on to inv; the filesystem becomes f
Resume(c, inv, f) ==
    /\ calls' = [calls EXCEPT ![c] = inv]
    /\ fs' = f
    /\ UNCHANGED <<store, config, request, response, log, configEdit, start, trip>>

\* await this.loadConfig(), and the roles the handler gives the directories
LoadConfigStep(c) ==
    /\ calls[c].pc = "config"
    /\ LET configResult == loadConfig(store, fs)
           rulesDir == join(ProjectPath, <<".cursor", "rules">>)
           globalDir == configResult.config.globalRulesSourceDir
       IN  Resume(c,
                  IF ~configResult.success
                  THEN Returned(Failed(<<configResult.error>>))
                  ELSE IF c = "loadGlobalRules"
                  THEN Invocation("access", globalDir, rulesDir, <<>>, <<>>, <<>>)
                  ELSE Invocation("access", rulesDir, globalDir, <<>>, <<>>, <<>>),
                  fs)

\* await fs.access(sourceDir)
AccessStep(c) ==
    /\ calls[c].pc = "access"
    /\ Resume(c,
              IF ~access(fs, calls[c].sourceDir)
              THEN Returned(Failed(<<OperationError(
                       <<"Source directory does not exist">>
                           \o calls[c].sourceDir)>>))
              ELSE [calls[c] EXCEPT !.pc = "mkdir"],
              fs)

\* await fs.mkdir(targetDir, { recursive: true })
MkdirStep(c) ==
    /\ calls[c].pc = "mkdir"
    /\ LET made == mkdir(fs, calls[c].targetDir)
       IN  Resume(c,
                  IF ~made.ok
                  THEN Returned(Failed(<<OperationError(<<made.code>>)>>))
                  ELSE [calls[c] EXCEPT !.pc = "readdir"],
                  made.fs)

\* the handler after an iteration of the loop: the next file, or the return
\* that follows the loop
NextFile(inv, errors) ==
    IF Tail(inv.files) = <<>>
    THEN Returned(batchResult(errors))
    ELSE [inv EXCEPT !.pc = "stat", !.files = Tail(inv.files), !.errors = errors]

\* the listing cut to its first global file
ReaddirStep_FirstOnly(c) ==
    /\ calls[c].pc = "readdir"
    /\ \E listing \in ReaddirOrders :
            LET list == readdir(fs, calls[c].sourceDir, listing)
                globalFiles == globalFilesOf(list.files)
            IN  Resume(c,
                       IF ~list.ok
                       THEN Returned(Failed(<<OperationError(<<list.code>>)>>))
                       ELSE IF Len(globalFiles) = 0
                       THEN Returned(Success)
                       ELSE [calls[c] EXCEPT !.pc = "stat",
                                             !.files = <<Head(globalFiles)>>],
                       fs)

\* await fs.readdir(sourceDir), the filter, and the return when nothing is
\* left
ReaddirStep(c) ==
    /\ calls[c].pc = "readdir"
    /\ \E listing \in ReaddirOrders :
            LET list == readdir(fs, calls[c].sourceDir, listing)
                globalFiles == globalFilesOf(list.files)
            IN  Resume(c,
                       IF ~list.ok
                       THEN Returned(Failed(<<OperationError(<<list.code>>)>>))
                       ELSE IF Len(globalFiles) = 0
                       THEN Returned(Success)
                       ELSE [calls[c] EXCEPT !.pc = "stat",
                                             !.files = globalFiles],
                       fs)

\* await fs.stat(sourcePath) and the test stats.isFile()
StatStep(c) ==
    /\ calls[c].pc = "stat"
    /\ LET file == Head(calls[c].files)
           st == stat(fs, join(calls[c].sourceDir, <<file>>))
       IN  Resume(c,
                  IF ~st.ok
                  THEN NextFile(calls[c],
                                Append(calls[c].errors,
                                       OperationError(
                                           <<"Failed to copy", file, st.code>>)))
                  ELSE IF ~st.isFile
                  THEN NextFile(calls[c], calls[c].errors)
                  ELSE [calls[c] EXCEPT !.pc = "copyFile"],
                  fs)

\* await fs.copyFile(sourcePath, targetPath)
CopyFileStep(c) ==
    /\ calls[c].pc = "copyFile"
    /\ LET file == Head(calls[c].files)
           cp == copyFile(fs, join(calls[c].sourceDir, <<file>>),
                          join(calls[c].targetDir, <<file>>))
       IN  Resume(c,
                  NextFile(calls[c],
                           IF cp.ok THEN calls[c].errors
                           ELSE Append(calls[c].errors,
                                       OperationError(
                                           <<"Failed to copy", file, cp.code>>))),
                  cp.fs)

NextConc ==
    \E c \in CallNames :
        \/ LoadConfigStep(c)
        \/ AccessStep(c)
        \/ MkdirStep(c)
        \/ ReaddirStep(c)
        \/ StatStep(c)
        \/ CopyFileStep(c)

SpecConc == InitConc /\ [][NextConc]_vars

(***************************************************************************)
(* Vocabulary of the properties                                            *)
(***************************************************************************)
\* this step is a tool call (a handler ran): config.json is not rewritten
IsToolCall == store' = store /\ request' # <<>>

\* the configuration is invalid: the store is absent or malformed, the
\* field is absent or blank after trimming, or it names nothing that exists
InvalidConfiguration(st, f) ==
    \/ st.kind \in {"absent", "malformed"}
    \/ ~st.hasDir
    \/ trim(st.dir) = <<>>
    \/ NodeAt(f, st.dir).kind = "absent"

\* the roles of the two directories in a tool call
SourceDir(req, st) ==
    IF req.name = "loadGlobalRules" THEN st.dir
    ELSE join(req.path, <<".cursor", "rules">>)

TargetDir(req, st) ==
    IF req.name = "loadGlobalRules" THEN join(req.path, <<".cursor", "rules">>)
    ELSE st.dir

\* the result is a failure with exactly one error, of the given type
IsSingleError(r, type) ==
    /\ ~r.success
    /\ Len(r.errors) = 1
    /\ r.errors[1].type = type

IsConfigFailure(r) == IsSingleError(r, CONFIG_PARSING_ERROR)

(***************************************************************************)
(* C1: whenever a tool call (loadGlobalRules or saveGlobalRules) runs with *)
(* an invalid configuration (store absent, malformed, field absent or      *)
(* blank after trimming, or naming a directory that does not exist), its   *)
(* result is success:false with exactly one error, a CONFIG_PARSING_ERROR, *)
(* and no OPERATION_ERROR.                                                 *)
(***************************************************************************)
C1_InvalidConfigGivesOneConfigError ==
    [][(IsToolCall /\ InvalidConfiguration(store, fs)) =>
            /\ IsConfigFailure(response'[1])
            /\ \A i \in DOMAIN response'[1].errors :
                    response'[1].errors[i].type # OPERATION_ERROR]_vars

\* saveGlobalRules has answered a configuration that names a directory that
\* does not exist
C1_Witness ==
    /\ request # <<>> /\ request[1].name = "saveGlobalRules"
    /\ store = StoreDir(GlobalDir)
    /\ NodeAt(fs, GlobalDir) = Absent
    /\ IsConfigFailure(response[1])

(***************************************************************************)
(* C2: when the configuration loader fails, the tool call returns without  *)
(* invoking the directory synchronizer (it makes no fs call) and leaves    *)
(* the filesystem unchanged.                                               *)
(***************************************************************************)
C2_ConfigFailureTouchesNothing ==
    [][(IsToolCall /\ ~loadConfig(store, fs).success) =>
            /\ fs' = fs
            /\ log' = <<>>]_vars

\* loadGlobalRules has failed on a configuration without the field, and the
\* rules directory of the project was not created
C2_Witness ==
    /\ request # <<>> /\ request[1].name = "loadGlobalRules"
    /\ store = StoreNoField
    /\ IsConfigFailure(response[1])
    /\ log = <<>>
    /\ NodeAt(fs, ProjectPath) = Directory
    /\ NodeAt(fs, RulesDir) = Absent

(***************************************************************************)
(* C3: when a tool call runs with a valid configuration and its source     *)
(* directory does not exist, the result is success:false with exactly one  *)
(* OPERATION_ERROR saying that the source directory does not exist, and    *)
(* the filesystem (the target side included) is unchanged.                 *)
(***************************************************************************)
C3_MissingSourceGivesOneOperationError ==
    [][(/\ IsToolCall
        /\ ~InvalidConfiguration(store, fs)
        /\ NodeAt(fs, SourceDir(request'[1], store)).kind = "absent") =>
            /\ IsSingleError(response'[1], OPERATION_ERROR)
            /\ response'[1].errors[1].message =
                  <<"Source directory does not exist">>
                      \o SourceDir(request'[1], store)
            /\ fs' = fs]_vars

\* saveGlobalRules has answered a project that does not exist
C3_Witness ==
    /\ request # <<>> /\ request[1].name = "saveGlobalRules"
    /\ store = StoreDir(GlobalDir)
    /\ NodeAt(fs, GlobalDir) = Directory
    /\ NodeAt(fs, ProjectPath) = Absent
    /\ IsSingleError(response[1], OPERATION_ERROR)
    /\ log = <<Call("access", RulesDir, "threw")>>

\* the names with the prefix 'g-'
GlobalNames == {"g-a.mdc", "g-b.mdc"}

Entry(f, dir, n) == NodeAt(f, join(dir, <<n>>))

\* the directory is absent, or exists and holds no entry
AbsentOrEmpty(f, dir) ==
    \/ NodeAt(f, dir) = Absent
    \/ NodeAt(f, dir) = Directory /\ \A n \in Names : Entry(f, dir, n) = Absent

(***************************************************************************)
(* C4: after a successful tool call made with a valid configuration on a   *)
(* target directory that was absent or empty, the target holds exactly the *)
(* regular files of the source whose names start with 'g-', each with the  *)
(* content of the source, and nothing else (no entry without the prefix).  *)
(***************************************************************************)
C4_TargetHoldsExactlyTheGlobalFiles ==
    [][(/\ IsToolCall
        /\ ~InvalidConfiguration(store, fs)
        /\ AbsentOrEmpty(fs, TargetDir(request'[1], store))
        /\ response'[1].success) =>
            LET src == SourceDir(request'[1], store)
                tgt == TargetDir(request'[1], store)
            IN  \A n \in Names :
                    IF n \in GlobalNames /\ Entry(fs', src, n).kind = "file"
                    THEN /\ Entry(fs', tgt, n).kind = "file"
                         /\ Entry(fs', tgt, n).content = Entry(fs', src, n).content
                    ELSE Entry(fs', tgt, n) = Absent]_vars

\* loadGlobalRules has created the rules directory of the project and copied
\* g-a.mdc and g-b.mdc, of different contents, and not ag-.mdc
C4_Witness ==
    /\ request # <<>> /\ request[1].name = "loadGlobalRules"
    /\ store = StoreDir(GlobalDir)
    /\ response[1].success
    /\ Len(log) >= 2 /\ log[2] = Call("mkdir", RulesDir, "created")
    /\ Entry(fs, GlobalDir, "g-a.mdc") = File(1, "rw")
    /\ Entry(fs, GlobalDir, "g-b.mdc") = File(2, "rw")
    /\ Entry(fs, GlobalDir, "ag-.mdc") = File(1, "rw")
    /\ Entry(fs, RulesDir, "g-a.mdc") = File(1, "rw")
    /\ Entry(fs, RulesDir, "g-b.mdc") = File(2, "rw")
    /\ Entry(fs, RulesDir, "ag-.mdc") = Absent

(***************************************************************************)
(* C5: in the per-file batch a stat or copy failure of one matching file   *)
(* does not stop the others: every source entry with the prefix is         *)
(* processed, the result is success:false with exactly one OPERATION_ERROR *)
(* per failed file, in the order of processing, and every matching regular *)
(* file whose copy did not fail is in the target with the source's content.*)
(***************************************************************************)
IsBatchCall(c) == c.call \in {"stat", "copyFile"}
Threw(c) == IsBatchCall(c) /\ c.outcome = "threw"
FileName(p) == p[Len(p)]

C5_BatchSurvivesFileFailures ==
    [][(IsToolCall /\ \E i \in DOMAIN log' : Threw(log'[i])) =>
            LET r == response'[1]
                src == SourceDir(request'[1], store)
                tgt == TargetDir(request'[1], store)
                threw == SelectSeq(log', Threw)
                Did(call, n) ==
                    \E i \in DOMAIN log' :
                        /\ log'[i].call = call
                        /\ log'[i].path = join(src, <<n>>)
                Copied(n) == Call("copyFile", join(src, <<n>>), "ok")
            IN  /\ ~r.success
                /\ Len(r.errors) = Len(threw)
                /\ \A i \in DOMAIN threw :
                        /\ r.errors[i].type = OPERATION_ERROR
                        /\ r.errors[i].message[1] = "Failed to copy"
                        /\ r.errors[i].message[2] = FileName(threw[i].path)
                /\ \A n \in GlobalNames :
                        /\ Entry(fs, src, n) # Absent => Did("stat", n)
                        /\ Entry(fs, src, n).kind = "file" => Did("copyFile", n)
                        /\ (\E i \in DOMAIN log' : log'[i] = Copied(n)) =>
                                /\ Entry(fs', tgt, n).kind = "file"
                                /\ Entry(fs', tgt, n).content
                                       = Entry(fs, src, n).content]_vars

\* loadGlobalRules has met g-b.mdc first, whose stat threw, and has gone on
\* to copy g-a.mdc
C5_Witness ==
    /\ request # <<>> /\ request[1].name = "loadGlobalRules"
    /\ store = StoreDir(GlobalDir)
    /\ ~response[1].success
    /\ Len(log) = 6
    /\ Len(response[1].errors) = 1
    /\ response[1].errors[1].message[2] = "g-b.mdc"
    /\ log[4] = Call("stat", join(GlobalDir, <<"g-b.mdc">>), "threw")
    /\ log[5] = Call("stat", join(GlobalDir, <<"g-a.mdc">>), "isFile")
    /\ log[6] = Call("copyFile", join(GlobalDir, <<"g-a.mdc">>), "ok")
    /\ Entry(fs, RulesDir, "g-a.mdc").content = Entry(fs, GlobalDir, "g-a.mdc").content

(***************************************************************************)
(* C6: every result a tool call returns is either success:true without an  *)
(* errors field, or success:false with a non-empty list of errors, each of *)
(* type CONFIG_PARSING_ERROR or OPERATION_ERROR.                           *)
(***************************************************************************)
C6_ResultShape ==
    response # <<>> =>
        LET r == response[1]
        IN  \/ r.success /\ DOMAIN r = {"success"}
            \/ /\ ~r.success
               /\ DOMAIN r = {"success", "errors"}
               /\ Len(r.errors) > 0
               /\ \A i \in DOMAIN r.errors : r.errors[i].type \in ErrorType

\* a tool call has returned two operation errors
C6_Witness ==
    /\ response # <<>>
    /\ ~response[1].success
    /\ Len(response[1].errors) = 2
    /\ \A i \in 1..2 : response[1].errors[i].type = OPERATION_ERROR

\* the configuration names an existing directory
ValidConfiguration(st, f) ==
    /\ st.kind = "json" /\ st.hasDir
    /\ trim(st.dir) # <<>>
    /\ NodeAt(f, st.dir) = Directory

\* the directory exists and holds no entry whose name starts with 'g-'
HasNoGlobalEntry(f, dir) ==
    /\ NodeAt(f, dir) = Directory
    /\ \A n \in GlobalNames : Entry(f, dir, n) = Absent

IsPrefix(p, q) == Len(p) <= Len(q) /\ SubSeq(q, 1, Len(p)) = p

\* nothing that is not a directory stands at the path or above it
Creatable(f, dir) ==
    \A i \in 1..Len(dir) : NodeAt(f, SubSeq(dir, 1, i)).kind \in {"absent", "dir"}

\* the tool call succeeded, the target directory exists and its entries are
\* what they were
SucceededCopyingNothing ==
    LET tgt == TargetDir(request'[1], store)
    IN  /\ response'[1].success
        /\ NodeAt(fs', tgt) = Directory
        /\ \A n \in Names : Entry(fs', tgt, n) = Entry(fs, tgt, n)

(***************************************************************************)
(* C7, as claimed: a tool call made with a valid configuration on an       *)
(* existing source directory without any entry whose name starts with 'g-' *)
(* returns success:true, the target directory exists afterwards, and no    *)
(* file is created or overwritten in it.                                   *)
(***************************************************************************)
C7_AsClaimed ==
    [][(/\ IsToolCall
        /\ ValidConfiguration(store, fs)
        /\ HasNoGlobalEntry(fs, SourceDir(request'[1], store))) =>
            SucceededCopyingNothing]_vars

(***************************************************************************)
(* C7, amended: the same, provided that every existing component of the    *)
(* target path is a directory (so that the target can be created).         *)
(***************************************************************************)
C7_NoGlobalFilesSucceeds ==
    [][(/\ IsToolCall
        /\ ValidConfiguration(store, fs)
        /\ HasNoGlobalEntry(fs, SourceDir(request'[1], store))
        /\ Creatable(fs, TargetDir(request'[1], store))) =>
            SucceededCopyingNothing]_vars

\* loadGlobalRules has found only ag-.mdc in the global directory, has
\* created the rules directory of the project and has left it empty
C7_Witness ==
    /\ request # <<>> /\ request[1].name = "loadGlobalRules"
    /\ store = StoreDir(GlobalDir)
    /\ response[1].success
    /\ log = <<Call("access", GlobalDir, "ok"),
               Call("mkdir", RulesDir, "created"),
               Call("readdir", GlobalDir, "ok")>>
    /\ Entry(fs, GlobalDir, "ag-.mdc") = File(1, "rw")
    /\ NodeAt(fs, RulesDir) = Directory
    /\ \A n \in Names : Entry(fs, RulesDir, n) = Absent

(***************************************************************************)
(* C8: idempotence.  When a tool call has succeeded and the same call is   *)
(* made again at once (config.json not rewritten in between), the second   *)
(* call succeeds too and leaves the contents of both directories as the    *)
(* first call left them.                                                   *)
(***************************************************************************)
C8_Idempotence ==
    [][(/\ IsToolCall
        /\ request # <<>> /\ request' = request
        /\ configEdit # "edited"
        /\ response[1].success) =>
            /\ response'[1].success
            /\ fs' = fs]_vars

(***************************************************************************)
(* C9: a tool call changes the filesystem only by creating the target      *)
(* directory (with its missing ancestors) and by creating or overwriting,  *)
(* in the target, files named as a regular file of the source whose name   *)
(* starts with 'g-'.  No entry is deleted, no file of the source directory *)
(* is modified, every other entry of the target is as it was.              *)
(***************************************************************************)
C9_OnlyTargetGlobalFilesChange ==
    [][IsToolCall =>
            LET src == SourceDir(request'[1], store)
                tgt == TargetDir(request'[1], store)
                valid == ~InvalidConfiguration(store, fs)
                CreatedDir(p) ==
                    /\ valid /\ IsPrefix(p, tgt)
                    /\ fs[p] = Absent /\ fs'[p] = Directory
                WrittenFile(p) ==
                    /\ valid /\ src # tgt
                    /\ \E n \in GlobalNames :
                            /\ p = join(tgt, <<n>>)
                            /\ Entry(fs, src, n).kind = "file"
                            /\ fs'[p].kind = "file"
                            /\ fs'[p].content = Entry(fs, src, n).content
                    /\ fs[p].kind \in {"absent", "file", "dangling"}
            IN  /\ DOMAIN fs' = DOMAIN fs
                /\ \A p \in DOMAIN fs :
                        fs'[p] = fs[p] \/ CreatedDir(p) \/ WrittenFile(p)
                /\ valid => \A n \in Names : Entry(fs', src, n) = Entry(fs, src, n)
                /\ \A p \in DOMAIN fs : fs[p] # Absent => fs'[p] # Absent]_vars

\* saveGlobalRules has copied g-a.mdc into the global directory, which still
\* holds its own g-b.mdc and ag-.mdc, and the project still has its file
C9_Witness ==
    /\ request # <<>> /\ request[1].name = "saveGlobalRules"
    /\ store = StoreDir(GlobalDir)
    /\ response[1].success
    /\ Len(log) = 5
    /\ log[5] = Call("copyFile", join(RulesDir, <<"g-a.mdc">>), "ok")
    /\ Entry(fs, RulesDir, "g-a.mdc") = File(1, "rw")
    /\ Entry(fs, GlobalDir, "g-a.mdc") = File(1, "rw")
    /\ Entry(fs, GlobalDir, "g-b.mdc") = File(2, "rw")
    /\ Entry(fs, GlobalDir, "ag-.mdc") = File(1, "rw")
    /\ Entry(fs, RulesDir, "g-b.mdc") = Absent
    /\ Entry(fs, RulesDir, "ag-.mdc") = Absent

C11_LoaderSuccessNamesDirectory ==
    [][IsToolCall =>
            /\ loadConfig(store, fs).success => ValidConfiguration(store, fs)
            /\ ~ValidConfiguration(store, fs) => IsConfigFailure(response'[1])]_vars

(***************************************************************************)
(* C12: when, in a tool call made with a configuration the loader accepts, *)
(* the source path exists but the target directory cannot be created or    *)
(* the source cannot be listed, the result is success:false with exactly   *)
(* one OPERATION_ERROR, the per-file batch is not started (no stat, no     *)
(* copyFile) and no file is created or changed.                            *)
(***************************************************************************)
C12_MkdirOrReaddirFailureIsOneError ==
    [][(/\ IsToolCall
        /\ ~InvalidConfiguration(store, fs)
        /\ NodeAt(fs, SourceDir(request'[1], store)).kind # "absent"
        /\ \/ ~Creatable(fs, TargetDir(request'[1], store))
           \/ NodeAt(fs, SourceDir(request'[1], store)).kind # "dir") =>
            /\ IsSingleError(response'[1], OPERATION_ERROR)
            /\ \A i \in DOMAIN log' : ~IsBatchCall(log'[i])
            /\ \A p \in EntryPaths : NodeAt(fs', p) = NodeAt(fs, p)]_vars

\* loadGlobalRules has created the rules directory of the project and has
\* then failed to list the source
C12_Witness ==
    /\ request # <<>> /\ request[1].name = "loadGlobalRules"
    /\ IsSingleError(response[1], OPERATION_ERROR)
    /\ Len(log) = 3
    /\ log[2].call = "mkdir" /\ log[2].outcome = "created"
    /\ log[3].call = "readdir" /\ log[3].outcome = "threw"

(***************************************************************************)
(* C13: round trip. With a valid configuration, after a successful         *)
(* loadGlobalRules followed directly by a successful saveGlobalRules of    *)
(* the same path, every file that was in the configured global directory   *)
(* before the load has the same content, and the global directory and      *)
(* path/.cursor/rules hold the same set of 'g-' prefixed regular files     *)
(* with equal contents.                                                    *)
(***************************************************************************)
C13_RoundTrip ==
    trip.phase = "saved" =>
        LET globalDir == store.dir
            rulesDir == join(request[1].path, <<".cursor", "rules">>)
        IN  /\ \A n \in Names :
                    trip.before[n].kind = "file" =>
                        /\ Entry(fs, globalDir, n).kind = "file"
                        /\ Entry(fs, globalDir, n).content = trip.before[n].content
            /\ \A n \in GlobalNames :
                    /\ Entry(fs, globalDir, n).kind = "file"
                            <=> Entry(fs, rulesDir, n).kind = "file"
                    /\ Entry(fs, globalDir, n).kind = "file" =>
                            Entry(fs, globalDir, n).content
                                = Entry(fs, rulesDir, n).content

\* a round trip between two distinct directories has ended: the global
\* directory keeps the file it had and has gained one from the project
C13_Witness ==
    /\ trip.phase = "saved"
    /\ store = StoreDir(GlobalDir)
    /\ trip.before["g-a.mdc"].kind = "file"
    /\ trip.before["g-b.mdc"] = Absent
    /\ Entry(fs, GlobalDir, "g-b.mdc").kind = "file"
    /\ Entry(fs, RulesDir, "g-a.mdc").kind = "file"

(***************************************************************************)
(* Overlapping calls: the conditions of C14 on the state the two calls     *)
(* start in, and what it says of them once they have returned              *)
(***************************************************************************)
\* valid configuration, both directories existing, regular files only
OverlapStart(st, f) ==
    /\ ValidConfiguration(st, f)
    /\ NodeAt(f, RulesDir).kind = "dir"
    /\ \A p \in EntryPaths : NodeAt(f, p).kind \in {"absent", "file"}

\* no file of the two directories is read-only
AllWritable(f) ==
    \A p \in EntryPaths : NodeAt(f, p).kind = "file" => NodeAt(f, p).mode = "rw"

\* every call that has returned has returned success:true
ReturnedSuccess ==
    \A c \in CallNames : calls[c].pc = "done" => calls[c].result[1].success

BothReturned == \A c \in CallNames : calls[c].pc = "done"

\* every global file one of the directories had in f0 is in both in f, with
\* equal content
Converged(st, f0, f) ==
    \A n \in GlobalNames :
        (Entry(f0, st.dir, n).kind = "file" \/ Entry(f0, RulesDir, n).kind = "file")
            => /\ Entry(f, st.dir, n).kind = "file"
               /\ Entry(f, RulesDir, n).kind = "file"
               /\ Entry(f, st.dir, n).content = Entry(f, RulesDir, n).content

====
